---- MODULE Spec2Model ----
(***************************************************************************)
(* Pose sequencing and session control of the LX-16A biped scripts         *)
(* (moving_left_and_right_legs.py, dance.py).                              *)
(*                                                                         *)
(* Angles are kept in tenths of a degree (215.3 deg = 2153), times in      *)
(* ticks of 50 ms (time.sleep(t_ms/1000 + 0.05) = t_ms/50 + 1 ticks).      *)
(* KeyboardInterrupt is asynchronous: it can be delivered in any state of  *)
(* a running script.                                                       *)
(***************************************************************************)
EXTENDS Integers, Sequences, FiniteSets, TLC

\* ------------------------------------------------------------------ bounds
MaxSteps == 2
MaxDurationSec == 3
MaxInterrupts == 1
MaxFaults == 2
MaxJitter == 1
MaxExc == 1
MaxDeltaKeys == 2
MaxCalls == 1
MaxHelloIters == 3
MaxReconnects == 2

\* --------------------------------------------------------------- constants
LEFT_ANKLE == 40
LEFT_KNEE == 10
LEFT_HIP == 20
RIGHT_ANKLE == 30
RIGHT_KNEE == 60
RIGHT_HIP == 50
AngleMin == 0
AngleMax == 2400
NeutralMs == 800
PauseTicks == 10
SettleMarginMs == 50

\* One tick is the settle margin; ticks in a second.
TickMs == SettleMarginMs
TicksPerSec == 1000 \div TickMs

ServoIds == {LEFT_ANKLE, LEFT_KNEE, LEFT_HIP, RIGHT_ANKLE, RIGHT_KNEE, RIGHT_HIP}

NEUTRAL ==
  (LEFT_HIP :> 2153) @@ (LEFT_KNEE :> 1236) @@ (LEFT_ANKLE :> 1231) @@
  (RIGHT_HIP :> 2340) @@ (RIGHT_KNEE :> 1073) @@ (RIGHT_ANKLE :> 1774)

\* Iteration order of pose.items(): the insertion order of NEUTRAL, which
\* dict(NEUTRAL) in pose_from_neutral preserves.
ItemsOrder == <<LEFT_HIP, LEFT_KNEE, LEFT_ANKLE, RIGHT_HIP, RIGHT_KNEE, RIGHT_ANKLE>>

Max2(a, b) == IF a >= b THEN a ELSE b
Min2(a, b) == IF a <= b THEN a ELSE b

\* Mutant of Clamp: the upper limit is not applied.
ClampNoUpper(angle) == Max2(AngleMin, angle)

\* angle = max(0.0, min(240.0, angle))
Clamp(angle) == Max2(AngleMin, Min2(AngleMax, angle))

\* Mutant of pose_from_neutral: the delta replaces the neutral angle.
PoseFromNeutralAbs(deltas_dict) ==
  [sid \in DOMAIN NEUTRAL |->
     IF sid \in DOMAIN deltas_dict THEN deltas_dict[sid] ELSE NEUTRAL[sid]]

\* pose_from_neutral(deltas_dict): a copy of NEUTRAL in which every key of
\* deltas_dict that is a key of the copy gets NEUTRAL[sid] + delta; other
\* keys of deltas_dict are skipped.  (The keyword form, lines 113-116, has
\* string keys, which are never keys of NEUTRAL.)
pose_from_neutral(deltas_dict) ==
  [sid \in DOMAIN NEUTRAL |->
     IF sid \in DOMAIN deltas_dict THEN NEUTRAL[sid] + deltas_dict[sid]
                                   ELSE NEUTRAL[sid]]

\* A delta given for all six servos, in tenths of a degree.
D6(lh, lk, la, rh, rk, ra) ==
  (LEFT_HIP :> lh * 10) @@ (LEFT_KNEE :> lk * 10) @@ (LEFT_ANKLE :> la * 10) @@
  (RIGHT_HIP :> rh * 10) @@ (RIGHT_KNEE :> rk * 10) @@ (RIGHT_ANKLE :> ra * 10)

LEFT_LEG_STEP_SEQUENCE ==
  << pose_from_neutral(D6(0, 50, -40, 0, 0, 0)),
     pose_from_neutral(D6(0, 30, -20, 0, 0, 0)),
     pose_from_neutral(D6(0, 10, 0, 0, 0, 0)),
     NEUTRAL >>

RIGHT_LEG_STEP_SEQUENCE ==
  << pose_from_neutral(D6(0, 0, 0, 0, 50, -40)),
     pose_from_neutral(D6(0, 0, 0, 0, 30, -20)),
     pose_from_neutral(D6(0, 0, 0, 0, 10, 0)),
     NEUTRAL >>

\* Mutant of HIP_SWAY_SEQUENCE: the right hip sways right by 10 degrees, as
\* the left hip does.
HipSwayUnreduced ==
  << pose_from_neutral(D6(-10, 10, 0, -10, 10, 0)),
     NEUTRAL,
     pose_from_neutral(D6(10, 10, 0, 10, 10, 0)),
     NEUTRAL >>

HIP_SWAY_SEQUENCE ==
  << pose_from_neutral(D6(-10, 10, 0, -10, 10, 0)),
     NEUTRAL,
     pose_from_neutral(D6(10, 10, 0, 5, 10, 0)),
     NEUTRAL >>

HIP_CIRCLE_SEQUENCE ==
  << pose_from_neutral(D6(5, 15, -5, 5, 15, -5)),
     pose_from_neutral(D6(10, 10, 0, -5, 10, 0)),
     pose_from_neutral(D6(-10, 5, 5, -10, 5, 5)),
     pose_from_neutral(D6(-5, 10, 0, 5, 10, 0)),
     NEUTRAL >>

HIP_LIFT_SEQUENCE ==
  << pose_from_neutral(D6(15, 30, -15, -10, 5, 0)),
     NEUTRAL,
     pose_from_neutral(D6(-10, 5, 0, 5, 30, -15)),
     NEUTRAL >>

DEEP_HIP_SEQUENCE ==
  << pose_from_neutral(D6(-20, 20, -10, -10, 15, 5)),
     NEUTRAL,
     pose_from_neutral(D6(-10, 15, 5, -20, 20, -10)),
     NEUTRAL >>

SequenceOf(name) ==
  CASE name = "Left" -> LEFT_LEG_STEP_SEQUENCE
    [] name = "Right" -> RIGHT_LEG_STEP_SEQUENCE
    [] name = "HipSway" -> HIP_SWAY_SEQUENCE
    [] name = "HipCircle" -> HIP_CIRCLE_SEQUENCE
    [] name = "HipLift" -> HIP_LIFT_SEQUENCE
    [] name = "DeepHip" -> DEEP_HIP_SEQUENCE
    [] OTHER -> <<NEUTRAL>>

\* Mutant of WalkLeg: the legs are swapped.
WalkLegSwapped(n) == IF n % 2 = 0 THEN "Right" ELSE "Left"

\* walk, lines 219-226: left leg on even step_num, right leg on odd.
WalkLeg(n) == IF n % 2 = 0 THEN "Left" ELSE "Right"

\* Mutant of DancePhrase: the counter is used before it is incremented.
DancePhraseFromZero(count) ==
  LET sequence_num == (count - 1) % 4 IN
  CASE sequence_num = 1 -> "HipSway"
    [] sequence_num = 2 -> "HipCircle"
    [] sequence_num = 3 -> "HipLift"
    [] OTHER -> "DeepHip"

\* dance, lines 381-398: sequence_num = sequence_count % 4 picks the phrase.
DancePhrase(count) ==
  LET sequence_num == count % 4 IN
  CASE sequence_num = 1 -> "HipSway"
    [] sequence_num = 2 -> "HipCircle"
    [] sequence_num = 3 -> "HipLift"
    [] OTHER -> "DeepHip"

\* time.sleep(t_ms / 1000.0 + 0.05), in ticks
SettleTicks(ms) == (ms + SettleMarginMs) \div TickMs


\* ------------------------------------------------------------------- state
VARIABLES
  pc,             \* statement the script is at
  gait,           \* "walk" or "dance": the call made inside main's try
  steps,          \* walk(steps=...)
  duration_sec,   \* dance(duration_sec=...)
  t_ms,           \* walk/dance(t_ms=...)
  delta,          \* argument of pose_from_neutral (pose specification)
  SERVOS,         \* keys of the global SERVOS registry
  sp,             \* position inside set_pose
  idx,            \* index into pose.items() of the next servo
  curPose,        \* set_pose argument pose
  curT,           \* set_pose argument t_ms
  cmd,            \* per servo, outcome of its iteration in this set_pose call
  warned,         \* servo ids named in a printed warning of this call
  sent,           \* per servo, angle passed to move() in this call (-1: none)
  ret,            \* value returned by the last set_pose call ({} is None)
  now,            \* time.time() in ticks, counted from the moment dance reads
                  \* start_time (the code uses the clock only in time.time() -
                  \* start_time, lines 379 and 401); 0 outside that loop
  slept,          \* ticks requested by the time.sleep that ended last
  start_time,     \* dance local
  sequence_count, \* dance local
  step_num,       \* walk local
  keyframe_num,   \* index of the keyframe being played in its sequence
  seqName,        \* sequence being played
  pending,        \* exception propagating through main's finally
  out,            \* kinds of messages printed so far
  played,         \* keyframes handed to set_pose by the current gait call
  interrupts,     \* KeyboardInterrupts delivered
  faults,         \* move() calls that raised
  jitter,         \* ticks slept beyond the requested time
  excs,           \* unexpected exceptions raised
  cut,            \* where in set_pose an interrupt cut a gait pose (in
                  \* "dispatch" some servo of the pose was not yet iterated)
  intInGait,      \* an interrupt was delivered while the gait ran
  neutralAfterInt,\* set_pose(NEUTRAL, ...) calls begun since that interrupt
  gaitInvoked,    \* walk/dance was called
  finalSettled,   \* main's finally completed set_pose(NEUTRAL, 800) + 0.5 s
  connectFailed,  \* LX16A.initialize raised
  moveCalled,     \* some SERVOS[sid].move was called
  report,         \* <<v>> once walk/dance returned v ({} is None), else <<>>
  alwaysFailed,   \* servos whose move() raised in every keyframe the gait
                  \* call has played so far
  alwaysWarned,   \* servos named in a warning in every such keyframe
  falseSuccess,   \* a "Returned to neutral" message was printed after a
                  \* set_pose(NEUTRAL, ...) in which some servo did not move
  firstSent,      \* angles passed to move() when the pose was played first
  broken,         \* servos whose move() raises on every command
  calls,          \* gait calls made before the current one
  hpc,            \* hello-world.py: statement the script is at
  t10,            \* hello-world.py: t in tenths (t += 0.1 each iteration)
  servo1,         \* hello-world.py: servo1 is a handle (FALSE: None)
  servo2,         \* hello-world.py: servo2 is a handle (FALSE: None)
  servo1_ok,      \* hello-world.py: result of safe_move(servo1, ...)
  servo2_ok,      \* hello-world.py: result of safe_move(servo2, ...)
  disconnect_count, \* hello-world.py: global counter
  reconnects,     \* hello-world.py: reconnect_servos calls so far
  hout            \* hello-world.py: kinds of messages printed so far

cfgVars == <<gait, steps, duration_sec, t_ms, delta>>
poseVars == <<sp, idx, curPose, curT, cmd, warned, sent, ret>>
gaitVars == <<start_time, sequence_count, step_num, keyframe_num, seqName, played>>
envVars == <<interrupts, faults, excs>>
timeVars == <<now, jitter, slept>>
monVars == <<cut, intInGait, neutralAfterInt, gaitInvoked, finalSettled,
             connectFailed>>
auxVars == <<report, alwaysFailed, alwaysWarned, falseSuccess, firstSent>>
callVars == <<broken, calls>>
helloVars == <<hpc, t10, servo1, servo2, servo1_ok, servo2_ok, disconnect_count,
               reconnects, hout>>
legsVars == <<pc, cfgVars, SERVOS, poseVars, timeVars, gaitVars, pending, out, envVars,
              monVars, moveCalled, auxVars, callVars>>
vars == <<legsVars, helloVars>>

TmsChoices == {100, 400}
DeltaChoices == {-2500, -100, 100, 2500}

\* An id that is not a key of NEUTRAL.
StrayId == RIGHT_KNEE + 10
\* Ids a delta is given for: servos of both legs, with neutral angles near
\* and far from the limits, and the id outside NEUTRAL.
DeltaKeys == {LEFT_HIP, LEFT_KNEE, RIGHT_HIP, RIGHT_ANKLE, StrayId}
DeltaInputs ==
  UNION {[K -> DeltaChoices] : K \in {S \in SUBSET DeltaKeys : Cardinality(S) <= MaxDeltaKeys}}
NoCmd == [sid \in ServoIds |-> "pending"]
NoSent == [sid \in ServoIds |-> -1]
EmptyDelta == [sid \in {} |-> 0]

GaitPcs == {"gait_call", "walk_neutral1", "walk_loop", "walk_keyframe", "walk_neutral2",
            "dance_neutral1", "dance_while", "dance_keyframe", "dance_check",
            "dance_neutral2"}
HandlerPcs == {"kbd_neutral", "exc_neutral"}

InitCommon ==
  /\ sp = "none" /\ idx = 0 /\ curPose = NEUTRAL /\ curT = 0
  /\ cmd = NoCmd /\ warned = {} /\ sent = NoSent /\ ret = {}
  /\ now = 0 /\ slept = 0 /\ start_time = 0 /\ sequence_count = 0 /\ step_num = 0
  /\ keyframe_num = 0 /\ seqName = "NEUTRAL" /\ played = <<>>
  /\ pending = "none" /\ out = {}
  /\ interrupts = 0 /\ faults = 0 /\ jitter = 0 /\ excs = 0
  /\ cut = "none" /\ intInGait = FALSE /\ neutralAfterInt = 0
  /\ gaitInvoked = FALSE /\ finalSettled = FALSE /\ connectFailed = FALSE
  /\ moveCalled = FALSE
  /\ report = <<>> /\ alwaysFailed = {} /\ alwaysWarned = {}
  /\ falseSuccess = FALSE /\ firstSent = NoSent
  /\ calls = 0

\* hello-world.py is not running.
HelloIdle ==
  /\ hpc = "none" /\ t10 = 0 /\ servo1 = FALSE /\ servo2 = FALSE
  /\ servo1_ok = TRUE /\ servo2_ok = TRUE /\ disconnect_count = 0
  /\ reconnects = 0 /\ hout = {}

\* The script starts at main(); the call inside main's try is walk or dance
\* (lines 442-449), with its arguments.
Init ==
  /\ pc = "connect"
  /\ gait \in {"walk", "dance"}
  /\ t_ms \in TmsChoices
  /\ steps \in (IF gait = "walk" THEN 0..MaxSteps ELSE {0})
  /\ duration_sec \in (IF gait = "dance" THEN 0..MaxDurationSec ELSE {0})
  /\ delta = EmptyDelta
  /\ SERVOS = {}
  /\ broken \in {{}, ServoIds}
  /\ InitCommon
  /\ HelloIdle

\* ---------------------------------------------------------------- set_pose
\* Entry of set_pose(pose, t): the for loop is about to take its first item.
CallSetPose(pose, t) ==
  /\ sp' = "dispatch"
  /\ idx' = 1
  /\ curPose' = pose
  /\ curT' = t
  /\ cmd' = NoCmd
  /\ warned' = {}
  /\ sent' = NoSent
  /\ ret' = ret

\* Position of the loop after the iteration for item i.
Advance(i) ==
  /\ idx' = i + 1
  /\ sp' = IF i = Len(ItemsOrder) THEN "settle" ELSE "dispatch"

\* Mutant of SetPoseMoveOk: line 88 stores the clamped angle into the pose
\* (pose[sid] = ...) instead of rebinding the loop variable.
SetPoseMoveOkWritesBack ==
  /\ sp = "dispatch"
  /\ LET sid == ItemsOrder[idx] IN
       /\ sid \in SERVOS /\ sid \notin broken
       /\ cmd' = [cmd EXCEPT ![sid] = "ok"]
       /\ sent' = [sent EXCEPT ![sid] = Clamp(curPose[sid])]
       /\ curPose' = [curPose EXCEPT ![sid] = Clamp(curPose[sid])]
  /\ moveCalled' = TRUE
  /\ Advance(idx)
  /\ UNCHANGED <<pc, cfgVars, SERVOS, curT, warned, ret, timeVars, gaitVars,
                 pending, out, envVars, monVars>>
  /\ UNCHANGED auxVars
  /\ UNCHANGED <<callVars, helloVars>>

\* Mutant of SetPoseMoveOk: the angle is sent without the upper clamp.
SetPoseMoveOkNoUpper ==
  /\ sp = "dispatch"
  /\ LET sid == ItemsOrder[idx] IN
       /\ sid \in SERVOS /\ sid \notin broken
       /\ cmd' = [cmd EXCEPT ![sid] = "ok"]
       /\ sent' = [sent EXCEPT ![sid] = ClampNoUpper(curPose[sid])]
  /\ moveCalled' = TRUE
  /\ Advance(idx)
  /\ UNCHANGED <<pc, cfgVars, SERVOS, curPose, curT, warned, ret, timeVars, gaitVars,
                 pending, out, envVars, monVars>>
  /\ UNCHANGED auxVars
  /\ UNCHANGED <<callVars, helloVars>>

\* Lines 85-90: the servo is registered and move(angle, time=t_ms) returns.
SetPoseMoveOk ==
  /\ sp = "dispatch"
  /\ LET sid == ItemsOrder[idx] IN
       /\ sid \in SERVOS /\ sid \notin broken
       /\ cmd' = [cmd EXCEPT ![sid] = "ok"]
       /\ sent' = [sent EXCEPT ![sid] = Clamp(curPose[sid])]
  /\ moveCalled' = TRUE
  /\ Advance(idx)
  /\ UNCHANGED <<pc, cfgVars, SERVOS, curPose, curT, warned, ret, timeVars, gaitVars,
                 pending, out, envVars, monVars>>
  /\ UNCHANGED auxVars
  /\ UNCHANGED <<callVars, helloVars>>

\* Mutant of SetPoseMoveFails: inside a gait the exception of move() is not
\* caught by set_pose and unwinds the gait to main's finally clause.
SetPoseMoveFailsRaises ==
  /\ sp = "dispatch"
  /\ ItemsOrder[idx] \in broken \/ faults < MaxFaults
  /\ ItemsOrder[idx] \in SERVOS
  /\ moveCalled' = TRUE
  /\ faults' = IF ItemsOrder[idx] \in broken THEN faults ELSE faults + 1
  /\ IF pc \in GaitPcs
       THEN /\ pending' = "exc"
            /\ out' = out \cup {"ReturningToNeutral"}
            /\ CallSetPose(NEUTRAL, NeutralMs)
            /\ neutralAfterInt' = IF intInGait THEN neutralAfterInt + 1
                                                ELSE neutralAfterInt
            /\ pc' = "finally_neutral"
            /\ start_time' = 0 /\ sequence_count' = 0 /\ step_num' = 0
            /\ keyframe_num' = 0 /\ seqName' = "NEUTRAL" /\ played' = <<>>
            /\ now' = 0
            /\ UNCHANGED <<jitter, slept>>
            /\ alwaysFailed' = {}
            /\ alwaysWarned' = {}
            /\ UNCHANGED <<report, falseSuccess, firstSent>>
       ELSE /\ cmd' = [cmd EXCEPT ![ItemsOrder[idx]] = "failed"]
            /\ sent' = [sent EXCEPT ![ItemsOrder[idx]] = Clamp(curPose[ItemsOrder[idx]])]
            /\ warned' = warned \cup {ItemsOrder[idx]}
            /\ Advance(idx)
            /\ UNCHANGED <<pc, curPose, curT, ret, timeVars, gaitVars, pending, out,
                           neutralAfterInt, auxVars>>
  /\ UNCHANGED <<cfgVars, SERVOS, interrupts, excs, cut, intInGait, gaitInvoked,
                 finalSettled, connectFailed>>
  /\ UNCHANGED <<callVars, helloVars>>

\* Mutant of SetPoseMoveFails: the exception ends the loop.
SetPoseMoveFailsAborts ==
  /\ sp = "dispatch"
  /\ ItemsOrder[idx] \in broken \/ faults < MaxFaults
  /\ LET sid == ItemsOrder[idx] IN
       /\ sid \in SERVOS
       /\ cmd' = [cmd EXCEPT ![sid] = "failed"]
       /\ sent' = [sent EXCEPT ![sid] = Clamp(curPose[sid])]
       /\ warned' = warned \cup {sid}
  /\ moveCalled' = TRUE
  /\ faults' = IF ItemsOrder[idx] \in broken THEN faults ELSE faults + 1
  /\ idx' = Len(ItemsOrder) + 1
  /\ sp' = "settle"
  /\ UNCHANGED <<pc, cfgVars, SERVOS, curPose, curT, ret, timeVars, gaitVars,
                 pending, out, interrupts, excs, monVars>>
  /\ UNCHANGED auxVars
  /\ UNCHANGED <<callVars, helloVars>>

\* Mutant of SetPoseMoveFails: the exception is swallowed without a warning.
SetPoseMoveFailsSilent ==
  /\ sp = "dispatch"
  /\ ItemsOrder[idx] \in broken \/ faults < MaxFaults
  /\ LET sid == ItemsOrder[idx] IN
       /\ sid \in SERVOS
       /\ cmd' = [cmd EXCEPT ![sid] = "failed"]
       /\ sent' = [sent EXCEPT ![sid] = Clamp(curPose[sid])]
  /\ moveCalled' = TRUE
  /\ faults' = IF ItemsOrder[idx] \in broken THEN faults ELSE faults + 1
  /\ Advance(idx)
  /\ UNCHANGED <<pc, cfgVars, SERVOS, curPose, curT, warned, ret, timeVars, gaitVars,
                 pending, out, interrupts, excs, monVars>>
  /\ UNCHANGED auxVars
  /\ UNCHANGED <<callVars, helloVars>>

\* Mutant of SetPoseMoveFails: the warning is printed for the first failure
\* of the run only.
SetPoseMoveFailsWarnsOnce ==
  /\ sp = "dispatch"
  /\ ItemsOrder[idx] \in broken \/ faults < MaxFaults
  /\ LET sid == ItemsOrder[idx] IN
       /\ sid \in SERVOS
       /\ cmd' = [cmd EXCEPT ![sid] = "failed"]
       /\ sent' = [sent EXCEPT ![sid] = Clamp(curPose[sid])]
       /\ warned' = IF faults = 0 THEN warned \cup {sid} ELSE warned
  /\ moveCalled' = TRUE
  /\ faults' = IF ItemsOrder[idx] \in broken THEN faults ELSE faults + 1
  /\ Advance(idx)
  /\ UNCHANGED <<pc, cfgVars, SERVOS, curPose, curT, ret, timeVars, gaitVars,
                 pending, out, interrupts, excs, monVars>>
  /\ UNCHANGED auxVars
  /\ UNCHANGED <<callVars, helloVars>>

\* Lines 86-92: move() raises; the except clause prints a warning naming the
\* servo and the loop goes on with the next item.
SetPoseMoveFails ==
  /\ sp = "dispatch"
  /\ ItemsOrder[idx] \in broken \/ faults < MaxFaults
  /\ LET sid == ItemsOrder[idx] IN
       /\ sid \in SERVOS
       /\ cmd' = [cmd EXCEPT ![sid] = "failed"]
       /\ sent' = [sent EXCEPT ![sid] = Clamp(curPose[sid])]
       /\ warned' = warned \cup {sid}
  /\ moveCalled' = TRUE
  /\ faults' = IF ItemsOrder[idx] \in broken THEN faults ELSE faults + 1
  /\ Advance(idx)
  /\ UNCHANGED <<pc, cfgVars, SERVOS, curPose, curT, ret, timeVars, gaitVars,
                 pending, out, interrupts, excs, monVars>>
  /\ UNCHANGED auxVars
  /\ UNCHANGED <<callVars, helloVars>>

\* Lines 90-92: SERVOS[sid] raises KeyError (the registry is empty); no move
\* is called, the warning is printed, the loop goes on.
SetPoseNoHandle ==
  /\ sp = "dispatch"
  /\ LET sid == ItemsOrder[idx] IN
       /\ sid \notin SERVOS
       /\ cmd' = [cmd EXCEPT ![sid] = "failed"]
       /\ warned' = warned \cup {sid}
  /\ Advance(idx)
  /\ UNCHANGED <<pc, cfgVars, SERVOS, curPose, curT, sent, ret, timeVars, gaitVars,
                 pending, out, envVars, monVars, moveCalled>>
  /\ UNCHANGED auxVars
  /\ UNCHANGED <<callVars, helloVars>>

DanceLoopPcs == {"dance_while", "dance_keyframe", "dance_check"}

\* A time.sleep of `ticks` ends: at least the requested time has passed.
Slept(ticks) ==
  /\ slept' = ticks
  /\ IF pc \in DanceLoopPcs
       THEN \E j \in 0..1 :
              /\ jitter + j <= MaxJitter
              /\ jitter' = jitter + j
              /\ now' = now + ticks + j
       ELSE UNCHANGED <<now, jitter>>

\* Mutant of SetPoseSettle: set_pose returns only once every servo of the
\* pose has taken its command.
SetPoseSettleWaitsForServos ==
  /\ sp = "settle"
  /\ \A sid \in ServoIds : cmd[sid] = "ok"
  /\ Slept(SettleTicks(curT))
  /\ sp' = "returned"
  /\ ret' = {}
  /\ UNCHANGED <<pc, cfgVars, SERVOS, idx, curPose, curT, cmd, warned, sent, gaitVars,
                 pending, out, interrupts, faults, excs, monVars, moveCalled>>
  /\ IF pc \in GaitPcs
       THEN /\ alwaysFailed' = alwaysFailed \cap {sid \in ServoIds : cmd[sid] = "failed"}
            /\ alwaysWarned' = alwaysWarned \cap warned
       ELSE UNCHANGED <<alwaysFailed, alwaysWarned>>
  /\ UNCHANGED <<report, falseSuccess, firstSent>>
  /\ UNCHANGED <<callVars, helloVars>>

\* Line 94: time.sleep(t_ms / 1000.0 + 0.05) ends and set_pose returns None.
SetPoseSettle ==
  /\ sp = "settle"
  /\ Slept(SettleTicks(curT))
  /\ sp' = "returned"
  /\ ret' = {}
  /\ UNCHANGED <<pc, cfgVars, SERVOS, idx, curPose, curT, cmd, warned, sent, gaitVars,
                 pending, out, interrupts, faults, excs, monVars, moveCalled>>
  /\ IF pc \in GaitPcs
       THEN /\ alwaysFailed' = alwaysFailed \cap {sid \in ServoIds : cmd[sid] = "failed"}
            /\ alwaysWarned' = alwaysWarned \cap warned
       ELSE UNCHANGED <<alwaysFailed, alwaysWarned>>
  /\ UNCHANGED <<report, falseSuccess, firstSent>>
  /\ UNCHANGED <<callVars, helloVars>>


\* ------------------------------------------------------------ walk, dance
\* set_pose(keyframe, t) on keyframe k of the named sequence.
Play(name, k, t) ==
  /\ CallSetPose(SequenceOf(name)[k], t)
  /\ seqName' = name
  /\ keyframe_num' = k
  /\ played' = Append(played, <<name, k>>)

\* Lines 440-449 and 211-213 / 248-249: main's try calls the gait, which
\* first calls set_pose(NEUTRAL, 800).
CallGait ==
  /\ pc = "gait_call"
  /\ gaitInvoked' = TRUE
  /\ Play("NEUTRAL", 1, NeutralMs)
  /\ pc' = IF gait = "walk" THEN "walk_neutral1" ELSE "dance_neutral1"
  /\ UNCHANGED <<cfgVars, SERVOS, timeVars, start_time, sequence_count, step_num,
                 pending, out, envVars, cut, intInGait, neutralAfterInt,
                 finalSettled, connectFailed, moveCalled>>
  /\ alwaysFailed' = ServoIds
  /\ alwaysWarned' = ServoIds
  /\ UNCHANGED <<report, falseSuccess, firstSent>>
  /\ UNCHANGED <<callVars, helloVars>>

\* Mutant of WalkPause: the loop starts without time.sleep(0.5).
WalkPauseNoSleep ==
  /\ pc = "walk_neutral1" /\ sp = "returned"
  /\ step_num' = 0
  /\ pc' = "walk_loop"
  /\ UNCHANGED <<cfgVars, SERVOS, poseVars, timeVars, start_time, sequence_count,
                 keyframe_num, seqName, played, pending, out, interrupts, faults, excs,
                 monVars, moveCalled>>
  /\ UNCHANGED auxVars
  /\ UNCHANGED <<callVars, helloVars>>

\* Line 214: time.sleep(0.5) ends; the for loop starts at step_num 0.
WalkPause ==
  /\ pc = "walk_neutral1" /\ sp = "returned"
  /\ Slept(PauseTicks)
  /\ step_num' = 0
  /\ pc' = "walk_loop"
  /\ UNCHANGED <<cfgVars, SERVOS, poseVars, start_time, sequence_count, keyframe_num,
                 seqName, played, pending, out, interrupts, faults, excs, monVars,
                 moveCalled>>
  /\ UNCHANGED auxVars
  /\ UNCHANGED <<callVars, helloVars>>

\* Lines 217-230 and 232-234: the next step picks its leg and plays its
\* first keyframe; after the last step walk calls set_pose(NEUTRAL, 800).
WalkLoop ==
  /\ pc = "walk_loop"
  /\ IF step_num < steps
       THEN /\ Play(WalkLeg(step_num), 1, t_ms)
            /\ pc' = "walk_keyframe"
       ELSE /\ Play("NEUTRAL", 1, NeutralMs)
            /\ pc' = "walk_neutral2"
  /\ UNCHANGED <<cfgVars, SERVOS, timeVars, start_time, sequence_count, step_num,
                 pending, out, envVars, monVars, moveCalled>>
  /\ UNCHANGED auxVars
  /\ UNCHANGED <<callVars, helloVars>>

\* Mutant of WalkKeyframe: the rest of the sequence is given up when a servo
\* command of the keyframe failed.
WalkKeyframeAbandons ==
  /\ pc = "walk_keyframe" /\ sp = "returned"
  /\ IF keyframe_num < Len(SequenceOf(seqName)) /\ \A sid \in ServoIds : cmd[sid] = "ok"
       THEN /\ Play(seqName, keyframe_num + 1, t_ms)
            /\ UNCHANGED <<pc, step_num>>
       ELSE /\ step_num' = step_num + 1
            /\ pc' = "walk_loop"
            /\ UNCHANGED <<poseVars, keyframe_num, seqName, played>>
  /\ UNCHANGED <<cfgVars, SERVOS, timeVars, start_time, sequence_count,
                 pending, out, envVars, monVars, moveCalled>>
  /\ UNCHANGED auxVars
  /\ UNCHANGED <<callVars, helloVars>>

\* Lines 229-230: set_pose returned; the next keyframe of the sequence, or
\* the next step.
WalkKeyframe ==
  /\ pc = "walk_keyframe" /\ sp = "returned"
  /\ IF keyframe_num < Len(SequenceOf(seqName))
       THEN /\ Play(seqName, keyframe_num + 1, t_ms)
            /\ UNCHANGED <<pc, step_num>>
       ELSE /\ step_num' = step_num + 1
            /\ pc' = "walk_loop"
            /\ UNCHANGED <<poseVars, keyframe_num, seqName, played>>
  /\ UNCHANGED <<cfgVars, SERVOS, timeVars, start_time, sequence_count,
                 pending, out, envVars, monVars, moveCalled>>
  /\ UNCHANGED auxVars
  /\ UNCHANGED <<callVars, helloVars>>

\* Mutant of DancePause: sequence_count is not set to 0 (a counter kept
\* outside the function).
DancePauseKeepsCount ==
  /\ pc = "dance_neutral1" /\ sp = "returned"
  /\ slept' = PauseTicks
  /\ now' = 0
  /\ start_time' = now'
  /\ UNCHANGED jitter
  /\ pc' = "dance_while"
  /\ UNCHANGED <<cfgVars, SERVOS, poseVars, sequence_count, step_num, keyframe_num,
                 seqName, played, pending, out, interrupts, faults, excs, monVars,
                 moveCalled>>
  /\ UNCHANGED auxVars
  /\ UNCHANGED <<callVars, helloVars>>

\* Lines 250 and 376-377: time.sleep(0.5) ends; start_time and the counter
\* are set.
DancePause ==
  /\ pc = "dance_neutral1" /\ sp = "returned"
  /\ slept' = PauseTicks
  /\ now' = 0
  /\ start_time' = now'
  /\ UNCHANGED jitter
  /\ sequence_count' = 0
  /\ pc' = "dance_while"
  /\ UNCHANGED <<cfgVars, SERVOS, poseVars, step_num, keyframe_num,
                 seqName, played, pending, out, interrupts, faults, excs, monVars,
                 moveCalled>>
  /\ UNCHANGED auxVars
  /\ UNCHANGED <<callVars, helloVars>>

\* Mutant of DanceWhile: the loop plays one phrase whatever the duration.
DanceWhileOnce ==
  /\ pc = "dance_while"
  /\ IF sequence_count = 0
       THEN /\ sequence_count' = sequence_count + 1
            /\ Play(DancePhrase(sequence_count + 1), 1, t_ms)
            /\ pc' = "dance_keyframe"
       ELSE /\ Play("NEUTRAL", 1, NeutralMs)
            /\ pc' = "dance_neutral2"
            /\ UNCHANGED sequence_count
  /\ UNCHANGED <<cfgVars, SERVOS, timeVars, start_time, step_num,
                 pending, out, envVars, monVars, moveCalled>>
  /\ UNCHANGED auxVars
  /\ UNCHANGED <<callVars, helloVars>>

\* Lines 379-398 and 404-406: while elapsed < duration_sec the counter is
\* incremented and the phrase it selects starts; otherwise dance calls
\* set_pose(NEUTRAL, 800).
DanceWhile ==
  /\ pc = "dance_while"
  /\ IF (now - start_time) < duration_sec * TicksPerSec
       THEN /\ sequence_count' = sequence_count + 1
            /\ Play(DancePhrase(sequence_count + 1), 1, t_ms)
            /\ pc' = "dance_keyframe"
       ELSE /\ Play("NEUTRAL", 1, NeutralMs)
            /\ pc' = "dance_neutral2"
            /\ UNCHANGED sequence_count
  /\ UNCHANGED <<cfgVars, SERVOS, timeVars, start_time, step_num,
                 pending, out, envVars, monVars, moveCalled>>
  /\ UNCHANGED auxVars
  /\ UNCHANGED <<callVars, helloVars>>

\* Mutant of DanceKeyframe: the elapsed time is checked after every keyframe.
DanceKeyframeChecks ==
  /\ pc = "dance_keyframe" /\ sp = "returned"
  /\ IF keyframe_num < Len(SequenceOf(seqName))
        /\ (now - start_time) < duration_sec * TicksPerSec
       THEN /\ Play(seqName, keyframe_num + 1, t_ms)
            /\ UNCHANGED pc
       ELSE /\ pc' = "dance_check"
            /\ UNCHANGED <<poseVars, keyframe_num, seqName, played>>
  /\ UNCHANGED <<cfgVars, SERVOS, timeVars, start_time, sequence_count, step_num,
                 pending, out, envVars, monVars, moveCalled>>
  /\ UNCHANGED auxVars
  /\ UNCHANGED <<callVars, helloVars>>

\* Lines 385-398: set_pose returned; the next keyframe of the phrase, or the
\* end of the phrase.
DanceKeyframe ==
  /\ pc = "dance_keyframe" /\ sp = "returned"
  /\ IF keyframe_num < Len(SequenceOf(seqName))
       THEN /\ Play(seqName, keyframe_num + 1, t_ms)
            /\ UNCHANGED pc
       ELSE /\ pc' = "dance_check"
            /\ UNCHANGED <<poseVars, keyframe_num, seqName, played>>
  /\ UNCHANGED <<cfgVars, SERVOS, timeVars, start_time, sequence_count, step_num,
                 pending, out, envVars, monVars, moveCalled>>
  /\ UNCHANGED auxVars
  /\ UNCHANGED <<callVars, helloVars>>

\* Lines 400-406: after the phrase, break when elapsed >= duration_sec (and
\* call set_pose(NEUTRAL, 800)), else back to the while test.
DanceCheck ==
  /\ pc = "dance_check"
  /\ IF (now - start_time) >= duration_sec * TicksPerSec
       THEN /\ Play("NEUTRAL", 1, NeutralMs)
            /\ pc' = "dance_neutral2"
       ELSE /\ pc' = "dance_while"
            /\ UNCHANGED <<poseVars, keyframe_num, seqName, played>>
  /\ UNCHANGED <<cfgVars, SERVOS, timeVars, start_time, sequence_count, step_num,
                 pending, out, envVars, monVars, moveCalled>>
  /\ UNCHANGED auxVars
  /\ UNCHANGED <<callVars, helloVars>>


\* -------------------------------------------------------- main, __main__
\* Mutant of ConnectFails: main goes on to initialize_servos after the
\* diagnostic.
ConnectFailsGoesOn ==
  /\ pc = "connect"
  /\ connectFailed' = TRUE
  /\ out' = out \cup {"FailedToConnect"}
  /\ pc' = "initialize_servos"
  /\ UNCHANGED <<cfgVars, SERVOS, poseVars, timeVars, gaitVars, pending, envVars,
                 cut, intInGait, neutralAfterInt, gaitInvoked, finalSettled,
                 moveCalled>>
  /\ UNCHANGED auxVars
  /\ UNCHANGED <<callVars, helloVars>>

\* Lines 421-431: LX16A.initialize raises; main prints the diagnostic and
\* returns, and the script ends.
ConnectFails ==
  /\ pc = "connect"
  /\ connectFailed' = TRUE
  /\ out' = out \cup {"FailedToConnect"}
  /\ pc' = "exit"
  /\ UNCHANGED <<cfgVars, SERVOS, poseVars, timeVars, gaitVars, pending, envVars,
                 cut, intInGait, neutralAfterInt, gaitInvoked, finalSettled,
                 moveCalled>>
  /\ UNCHANGED auxVars
  /\ UNCHANGED <<callVars, helloVars>>

\* Lines 421-424: LX16A.initialize returns.
ConnectOk ==
  /\ pc = "connect"
  /\ out' = out \cup {"Connected"}
  /\ pc' = "initialize_servos"
  /\ UNCHANGED <<cfgVars, SERVOS, poseVars, timeVars, gaitVars, pending, envVars,
                 monVars, moveCalled>>
  /\ UNCHANGED auxVars
  /\ UNCHANGED <<callVars, helloVars>>

\* Lines 434-435 and 60-71: all six handles are built and SERVOS is assigned.
InitServosOk ==
  /\ pc = "initialize_servos"
  /\ SERVOS' = ServoIds
  /\ out' = out \cup {"ServosInitialized"}
  /\ pc' = "gait_call"
  /\ UNCHANGED <<cfgVars, poseVars, timeVars, gaitVars, pending, envVars, monVars,
                 moveCalled>>
  /\ UNCHANGED auxVars
  /\ UNCHANGED <<callVars, helloVars>>

\* Mutant of InitServosFails: the registry is filled handle by handle, so the
\* handles built before the failing one stay in it.
InitServosFailsPartial ==
  /\ pc = "initialize_servos"
  /\ SERVOS' = {LEFT_HIP, LEFT_KNEE}
  /\ out' = out \cup {"FailedToInit"}
  /\ pc' = "exit"
  /\ UNCHANGED <<cfgVars, poseVars, timeVars, gaitVars, pending, envVars,
                 monVars, moveCalled>>
  /\ UNCHANGED auxVars
  /\ UNCHANGED <<callVars, helloVars>>

\* Lines 434-438: a handle constructor raises before SERVOS is assigned; main
\* prints the diagnostic and returns.
InitServosFails ==
  /\ pc = "initialize_servos"
  /\ out' = out \cup {"FailedToInit"}
  /\ pc' = "exit"
  /\ UNCHANGED <<cfgVars, SERVOS, poseVars, timeVars, gaitVars, pending, envVars,
                 monVars, moveCalled>>
  /\ UNCHANGED auxVars
  /\ UNCHANGED <<callVars, helloVars>>

\* The gait's frame is left (return or unwinding): its locals are gone.
LeaveGait ==
  /\ start_time' = 0
  /\ sequence_count' = 0
  /\ step_num' = 0
  /\ keyframe_num' = 0
  /\ seqName' = "NEUTRAL"
  /\ played' = <<>>
  /\ now' = 0
  /\ UNCHANGED <<jitter, slept>>

\* One more set_pose(NEUTRAL, ...) call counted once the gait was interrupted.
CountNeutral(interrupted) ==
  neutralAfterInt' = IF interrupted THEN neutralAfterInt + 1 ELSE neutralAfterInt

\* Lines 455-459: the finally clause starts, with exception p in flight.
EnterFinally(p, msgs, interrupted) ==
  /\ pending' = p
  /\ out' = out \cup msgs \cup {"ReturningToNeutral"}
  /\ CallSetPose(NEUTRAL, NeutralMs)
  /\ CountNeutral(interrupted)
  /\ pc' = "finally_neutral"

\* Lines 469-473 / 477-481: the exception reaches the handlers of __main__,
\* which call set_pose(NEUTRAL, 800); with none in flight main returns and
\* the script ends.
Propagate(p, msgs) ==
  /\ pending' = "none"
  /\ IF p = "none"
       THEN /\ pc' = "exit"
            /\ out' = out \cup msgs
            /\ UNCHANGED <<poseVars, neutralAfterInt>>
       ELSE /\ pc' = IF p = "kbd" THEN "kbd_neutral" ELSE "exc_neutral"
            /\ out' = out \cup msgs \cup {IF p = "kbd" THEN "Interrupted" ELSE "UnexpectedError"}
            /\ CallSetPose(NEUTRAL, NeutralMs)
            /\ CountNeutral(intInGait)

\* Lines 235/407 and 451-457: the gait's last set_pose returned; the gait
\* returns, main prints and enters the finally clause.
GaitReturn ==
  /\ pc \in {"walk_neutral2", "dance_neutral2"} /\ sp = "returned"
  /\ EnterFinally("none", {"GaitComplete", "DemoComplete"}, intInGait)
  /\ LeaveGait
  /\ UNCHANGED <<cfgVars, SERVOS, envVars, cut, intInGait,
                 gaitInvoked, finalSettled, connectFailed, moveCalled>>
  /\ report' = <<{}>>
  /\ UNCHANGED <<alwaysFailed, alwaysWarned, falseSuccess, firstSent>>
  /\ UNCHANGED <<callVars, helloVars>>

\* Mutant of FinallyEnd: set_pose(NEUTRAL, 800) is called again when some
\* servo did not move.
FinallyEndRetries ==
  /\ pc = "finally_neutral" /\ sp = "returned"
  /\ Slept(PauseTicks)
  /\ IF \E sid \in ServoIds : cmd[sid] # "ok"
       THEN /\ CallSetPose(NEUTRAL, NeutralMs)
            /\ UNCHANGED <<pc, pending, out, neutralAfterInt, finalSettled, falseSuccess>>
       ELSE /\ finalSettled' = TRUE
            /\ Propagate(pending, {"ReturnedToNeutral"})
            /\ UNCHANGED falseSuccess
  /\ UNCHANGED <<cfgVars, SERVOS, gaitVars, interrupts, faults, excs, cut,
                 intInGait, gaitInvoked, connectFailed, moveCalled>>
  /\ UNCHANGED <<report, alwaysFailed, alwaysWarned, firstSent>>
  /\ UNCHANGED <<callVars, helloVars>>

\* Mutant of FinallyEnd: the finally clause returns from main, dropping the
\* exception in flight.
FinallyEndSwallows ==
  /\ pc = "finally_neutral" /\ sp = "returned"
  /\ Slept(PauseTicks)
  /\ finalSettled' = TRUE
  /\ Propagate("none", {"ReturnedToNeutral"})
  /\ UNCHANGED <<cfgVars, SERVOS, gaitVars, interrupts, faults, excs, cut,
                 intInGait, gaitInvoked, connectFailed, moveCalled>>
  /\ falseSuccess' = (falseSuccess \/ \E sid \in ServoIds : cmd[sid] # "ok")
  /\ UNCHANGED <<report, alwaysFailed, alwaysWarned, firstSent>>
  /\ UNCHANGED <<callVars, helloVars>>

\* Lines 460-461: time.sleep(0.5) ends, the success message is printed, and
\* the finally clause ends: the exception in flight goes on to __main__.
FinallyEnd ==
  /\ pc = "finally_neutral" /\ sp = "returned"
  /\ Slept(PauseTicks)
  /\ finalSettled' = TRUE
  /\ Propagate(pending, {"ReturnedToNeutral"})
  /\ UNCHANGED <<cfgVars, SERVOS, gaitVars, interrupts, faults, excs, cut,
                 intInGait, gaitInvoked, connectFailed, moveCalled>>
  /\ falseSuccess' = (falseSuccess \/ \E sid \in ServoIds : cmd[sid] # "ok")
  /\ UNCHANGED <<report, alwaysFailed, alwaysWarned, firstSent>>
  /\ UNCHANGED <<callVars, helloVars>>

\* Lines 474-476 / 482-485: the handler's set_pose returned; the script ends.
HandlerDone ==
  /\ pc \in HandlerPcs /\ sp = "returned"
  /\ out' = out \cup (IF pc = "exc_neutral" THEN {"ReturnedAfterError"} ELSE {}) \cup {"Exiting"}
  /\ pc' = "exit"
  /\ UNCHANGED <<cfgVars, SERVOS, poseVars, timeVars, gaitVars, pending, envVars, monVars,
                 moveCalled>>
  /\ falseSuccess' = (falseSuccess \/ (pc = "exc_neutral" /\ \E sid \in ServoIds : cmd[sid] # "ok"))
  /\ UNCHANGED <<report, alwaysFailed, alwaysWarned, firstSent>>
  /\ UNCHANGED <<callVars, helloVars>>

\* ------------------------------------------- interrupts and exceptions
\* KeyboardInterrupt during connect or initialize_servos: no except clause
\* of main catches it (they name Exception); __main__ handles it.
InterruptInMain ==
  /\ pc \in {"connect", "initialize_servos"}
  /\ interrupts < MaxInterrupts
  /\ interrupts' = interrupts + 1
  /\ Propagate("kbd", {})
  /\ UNCHANGED <<cfgVars, SERVOS, timeVars, gaitVars, faults, excs, cut,
                 intInGait, gaitInvoked, finalSettled, connectFailed, moveCalled>>
  /\ UNCHANGED auxVars
  /\ UNCHANGED <<callVars, helloVars>>

\* KeyboardInterrupt while the gait runs: it is raised where the script is
\* (set_pose's except clause names Exception), unwinding to main's finally.
InterruptInGait ==
  /\ pc \in GaitPcs
  /\ interrupts < MaxInterrupts
  /\ interrupts' = interrupts + 1
  /\ intInGait' = (intInGait \/ gaitInvoked)
  /\ IF sp \in {"dispatch", "settle"} /\ cut = "none"
       THEN cut' = sp
       ELSE UNCHANGED cut
  /\ EnterFinally("kbd", {}, gaitInvoked)
  /\ LeaveGait
  /\ UNCHANGED <<cfgVars, SERVOS, faults, excs,
                 gaitInvoked, finalSettled, connectFailed, moveCalled>>
  /\ alwaysFailed' = {}
  /\ alwaysWarned' = {}
  /\ UNCHANGED <<report, falseSuccess, firstSent>>
  /\ UNCHANGED <<callVars, helloVars>>

\* KeyboardInterrupt inside the finally clause: its except clause names
\* Exception, so the interrupt replaces the exception in flight and goes to
\* __main__.
InterruptInFinally ==
  /\ pc = "finally_neutral"
  /\ interrupts < MaxInterrupts
  /\ interrupts' = interrupts + 1
  /\ Propagate("kbd", {})
  /\ UNCHANGED <<cfgVars, SERVOS, timeVars, gaitVars, faults, excs, cut,
                 intInGait, gaitInvoked, finalSettled, connectFailed, moveCalled>>
  /\ UNCHANGED auxVars
  /\ UNCHANGED <<callVars, helloVars>>

\* KeyboardInterrupt inside a handler's set_pose: the bare except catches
\* it, "Exiting..." is printed and the script ends.
InterruptInHandler ==
  /\ pc \in HandlerPcs
  /\ interrupts < MaxInterrupts
  /\ interrupts' = interrupts + 1
  /\ sp' = "aborted"
  /\ out' = out \cup {"Exiting"}
  /\ pc' = "exit"
  /\ UNCHANGED <<cfgVars, SERVOS, idx, curPose, curT, cmd, warned, sent, ret, timeVars,
                 gaitVars, pending, faults, excs, monVars, moveCalled>>
  /\ UNCHANGED auxVars
  /\ UNCHANGED <<callVars, helloVars>>

\* An exception other than a move failure is raised in the gait, outside
\* set_pose's try (a print or an argument error): it unwinds to main's
\* finally.
GaitRaises ==
  /\ pc \in GaitPcs /\ sp \in {"none", "returned"}
  /\ excs < MaxExc
  /\ excs' = excs + 1
  /\ EnterFinally("exc", {}, intInGait)
  /\ LeaveGait
  /\ UNCHANGED <<cfgVars, SERVOS, interrupts, faults, cut, intInGait, gaitInvoked, finalSettled, connectFailed,
                 moveCalled>>
  /\ alwaysFailed' = {}
  /\ alwaysWarned' = {}
  /\ UNCHANGED <<report, falseSuccess, firstSent>>
  /\ UNCHANGED <<callVars, helloVars>>

\* Lines 458-463: an exception is raised inside the finally's try after
\* set_pose returned; the warning is printed and the finally clause ends.
FinallyRaises ==
  /\ pc = "finally_neutral" /\ sp = "returned"
  /\ excs < MaxExc
  /\ excs' = excs + 1
  /\ Propagate(pending, {"NeutralWarning"})
  /\ UNCHANGED <<cfgVars, SERVOS, timeVars, gaitVars, interrupts, faults, cut, intInGait, gaitInvoked, finalSettled, connectFailed,
                 moveCalled>>
  /\ UNCHANGED auxVars
  /\ UNCHANGED <<callVars, helloVars>>

\* ------------------------------------------------------ specifications
SetPoseStep ==
  \/ SetPoseMoveOk
  \/ SetPoseMoveFails
  \/ SetPoseNoHandle
  \/ SetPoseSettle

Next ==
  \/ ConnectOk
  \/ ConnectFails
  \/ InitServosOk
  \/ InitServosFails
  \/ CallGait
  \/ WalkPause
  \/ WalkLoop
  \/ WalkKeyframe
  \/ DancePause
  \/ DanceWhile
  \/ DanceKeyframe
  \/ DanceCheck
  \/ GaitReturn
  \/ FinallyEnd
  \/ HandlerDone
  \/ SetPoseStep
  \/ InterruptInMain
  \/ InterruptInGait
  \/ InterruptInFinally
  \/ InterruptInHandler
  \/ GaitRaises
  \/ FinallyRaises

Spec == Init /\ [][Next]_vars

\* The steps the interpreter takes on its own: every statement that is
\* reached is executed and every time.sleep ends, while interrupts and
\* exceptions may or may not arrive.
ProgramStep ==
  \/ ConnectOk
  \/ ConnectFails
  \/ InitServosOk
  \/ InitServosFails
  \/ CallGait
  \/ WalkPause
  \/ WalkLoop
  \/ WalkKeyframe
  \/ DancePause
  \/ DanceWhile
  \/ DanceKeyframe
  \/ DanceCheck
  \/ GaitReturn
  \/ FinallyEnd
  \/ HandlerDone
  \/ SetPoseStep

SpecLive == Init /\ [][Next]_vars /\ WF_vars(ProgramStep)


\* A pose built by pose_from_neutral from any delta and handed to set_pose
\* (as lines 127-135 with 230 do), before or after initialize_servos.
InitPose ==
  /\ pc = "compose"
  /\ gait = "none"
  /\ t_ms \in TmsChoices
  /\ steps = 0
  /\ duration_sec = 0
  /\ delta \in DeltaInputs
  /\ SERVOS \in {{}, ServoIds}
  /\ broken = {}
  /\ InitCommon
  /\ HelloIdle

\* Lines 107-117 then 85: pose = pose_from_neutral(delta) returns (no
\* statement of it raises) and set_pose(pose, t_ms) is called.
Compose ==
  /\ pc = "compose"
  /\ CallSetPose(pose_from_neutral(delta), t_ms)
  /\ pc' = "pose_call"
  /\ UNCHANGED <<cfgVars, SERVOS, timeVars, gaitVars, pending, out, envVars, monVars,
                 moveCalled>>
  /\ UNCHANGED auxVars
  /\ UNCHANGED <<callVars, helloVars>>

\* Lines 217-230: the same pose object is handed to set_pose again with the
\* same t_ms, as a sequence played a second time does with its keyframes.
Replay ==
  /\ pc = "pose_call" /\ sp = "returned"
  /\ firstSent' = sent
  /\ CallSetPose(curPose, t_ms)
  /\ pc' = "pose_replay"
  /\ UNCHANGED <<cfgVars, SERVOS, timeVars, gaitVars, pending, out, envVars, monVars,
                 moveCalled, report, alwaysFailed, alwaysWarned, falseSuccess>>
  /\ UNCHANGED <<callVars, helloVars>>

\* set_pose returned to its caller.
PoseReturn ==
  /\ pc \in {"pose_call", "pose_replay"} /\ sp = "returned"
  /\ pc' = "exit"
  /\ UNCHANGED <<cfgVars, SERVOS, poseVars, timeVars, gaitVars, pending, out, envVars,
                 monVars, moveCalled>>
  /\ UNCHANGED auxVars
  /\ UNCHANGED <<callVars, helloVars>>

NextPose ==
  \/ Compose
  \/ SetPoseStep
  \/ Replay
  \/ PoseReturn

SpecPose == InitPose /\ [][NextPose]_vars


\* ------------------------------------------------ gaits called in a row
\* walk and dance called one after the other by a caller that holds the
\* initialized registry (as main would with line 443 uncommented).
CallGaits == {"walk", "dance"}
CallDurations == 0..Min2(1, MaxDurationSec)

InitCalls ==
  /\ pc = "gait_call"
  /\ gait \in CallGaits
  /\ t_ms \in TmsChoices
  /\ steps \in (IF gait = "walk" THEN 0..MaxSteps ELSE {0})
  /\ duration_sec \in (IF gait = "dance" THEN CallDurations ELSE {0})
  /\ delta = EmptyDelta
  /\ SERVOS = ServoIds
  /\ broken = {}
  /\ InitCommon
  /\ HelloIdle

\* The caller is about to make its next call: arguments are chosen; the
\* locals of the frame that was left (step_num, sequence_count, start_time)
\* keep whatever was in them, nothing of the new frame being assigned yet.
NewCall ==
  /\ calls < MaxCalls
  /\ calls' = calls + 1
  /\ pc' = "gait_call"
  /\ gait' \in CallGaits
  /\ steps' \in (IF gait' = "walk" THEN 0..MaxSteps ELSE {0})
  /\ duration_sec' \in (IF gait' = "dance" THEN CallDurations ELSE {0})
  /\ sp' = "none" /\ idx' = 0 /\ curPose' = NEUTRAL /\ curT' = 0
  /\ cmd' = NoCmd /\ warned' = {} /\ sent' = NoSent /\ ret' = {}
  /\ played' = <<>> /\ keyframe_num' = 0 /\ seqName' = "NEUTRAL"
  /\ now' = 0 /\ slept' = 0
  /\ UNCHANGED <<t_ms, delta, broken, SERVOS, jitter, start_time, sequence_count,
                 step_num, pending, out, faults, excs, monVars, moveCalled, auxVars,
                 helloVars>>

\* Lines 235 / 407: the gait returned; the caller calls a gait again.
NextCall ==
  /\ pc \in {"walk_neutral2", "dance_neutral2"} /\ sp = "returned"
  /\ NewCall
  /\ UNCHANGED interrupts

\* A KeyboardInterrupt ended the gait where it was; the caller caught it and
\* calls a gait again.
CallInterrupted ==
  /\ pc \in GaitPcs \ {"gait_call"}
  /\ interrupts < MaxInterrupts
  /\ interrupts' = interrupts + 1
  /\ NewCall

NextCalls ==
  \/ CallGait
  \/ WalkPause
  \/ WalkLoop
  \/ WalkKeyframe
  \/ DancePause
  \/ DanceWhile
  \/ DanceKeyframe
  \/ DanceCheck
  \/ SetPoseMoveOk
  \/ SetPoseSettle
  \/ NextCall
  \/ CallInterrupted

SpecCalls == InitCalls /\ [][NextCalls]_vars


\* ============================================== hello-world.py (the script)
\* Line 77.
max_disconnect_attempts == 3

HelloLoopPcs == {"move1", "move2", "check", "reconnect", "sleep"}

\* Before line 66 of hello-world.py runs; the walking script is not running.
InitHello ==
  /\ pc = "none"
  /\ gait = "none"
  /\ t_ms \in TmsChoices
  /\ steps = 0
  /\ duration_sec = 0
  /\ delta = EmptyDelta
  /\ SERVOS = {}
  /\ broken = {}
  /\ InitCommon
  /\ hpc = "initialize" /\ t10 = 0 /\ servo1 = FALSE /\ servo2 = FALSE
  /\ servo1_ok = TRUE /\ servo2_ok = TRUE /\ disconnect_count = 0
  /\ reconnects = 0 /\ hout = {}

\* Lines 7-18, 66, 72-77: both handles were constructed; t and
\* disconnect_count start at 0.
HelloInitOk ==
  /\ hpc = "initialize"
  /\ servo1' = TRUE /\ servo2' = TRUE
  /\ t10' = 0 /\ disconnect_count' = 0
  /\ hout' = hout \cup {"Starting"}
  /\ hpc' = "move1"
  /\ UNCHANGED <<servo1_ok, servo2_ok, reconnects>>
  /\ UNCHANGED legsVars

\* Lines 20-29, 66-70: initialize_servos returned (None, None); exit().
HelloInitFails ==
  /\ hpc = "initialize"
  /\ servo1' = FALSE /\ servo2' = FALSE
  /\ hout' = hout \cup {"FailedToInitialize"}
  /\ hpc' = "exit"
  /\ UNCHANGED <<t10, servo1_ok, servo2_ok, disconnect_count, reconnects>>
  /\ UNCHANGED legsVars

\* Lines 32-44, 80-86: safe_move(servo1, ...) returns True, or False when
\* move() raised.  Failures are drawn while a reconnect may still be tried.
HelloMove1 ==
  /\ hpc = "move1"
  /\ t10 < MaxHelloIters
  /\ \E ok \in BOOLEAN :
       /\ (ok \/ reconnects < MaxReconnects)
       /\ servo1_ok' = ok
  /\ hpc' = "move2"
  /\ UNCHANGED <<t10, servo1, servo2, servo2_ok, disconnect_count, reconnects, hout>>
  /\ UNCHANGED legsVars

\* Lines 32-44, 87: safe_move(servo2, ...).
HelloMove2 ==
  /\ hpc = "move2"
  /\ \E ok \in BOOLEAN :
       /\ (ok \/ reconnects < MaxReconnects)
       /\ servo2_ok' = ok
  /\ hpc' = "check"
  /\ UNCHANGED <<t10, servo1, servo2, servo1_ok, disconnect_count, reconnects, hout>>
  /\ UNCHANGED legsVars

\* Lines 90-96: a failed move counts one disconnect; at the limit the loop
\* is left, otherwise reconnect_servos is called.  With both moves successful
\* the whole branch is skipped.
HelloCheck ==
  /\ hpc = "check"
  /\ IF ~servo1_ok \/ ~servo2_ok
       THEN /\ disconnect_count' = disconnect_count + 1
            /\ IF disconnect_count + 1 >= max_disconnect_attempts
                 THEN /\ hout' = hout \cup {"Disconnect", "TooMany"}
                      /\ hpc' = "exit"
                 ELSE /\ hout' = hout \cup {"Disconnect"}
                      /\ hpc' = "reconnect"
       ELSE /\ hpc' = "sleep"
            /\ UNCHANGED <<disconnect_count, hout>>
  /\ UNCHANGED <<t10, servo1, servo2, servo1_ok, servo2_ok, reconnects>>
  /\ UNCHANGED legsVars

HelloReconnectOkNoReset ==
  /\ hpc = "reconnect"
  /\ reconnects < MaxReconnects
  /\ servo1' = TRUE /\ servo2' = TRUE
  /\ reconnects' = reconnects + 1
  /\ hout' = hout \cup {"Reconnected", "Continuing"}
  /\ hpc' = "sleep"
  /\ UNCHANGED <<t10, servo1_ok, servo2_ok, disconnect_count>>
  /\ UNCHANGED legsVars

\* Lines 47-59, 99-105: reconnect_servos returned two handles; the counter is
\* reset and the loop goes on.
HelloReconnectOk ==
  /\ hpc = "reconnect"
  /\ reconnects < MaxReconnects
  /\ servo1' = TRUE /\ servo2' = TRUE
  /\ disconnect_count' = 0
  /\ reconnects' = reconnects + 1
  /\ hout' = hout \cup {"Reconnected", "Continuing"}
  /\ hpc' = "sleep"
  /\ UNCHANGED <<t10, servo1_ok, servo2_ok>>
  /\ UNCHANGED legsVars

\* Lines 47-57, 61-63, 99-102: reconnect_servos returned (None, None); break.
HelloReconnectFails ==
  /\ hpc = "reconnect"
  /\ servo1' = FALSE /\ servo2' = FALSE
  /\ hout' = hout \cup {"ReconnectionFailed", "FailedToReconnect"}
  /\ hpc' = "exit"
  /\ UNCHANGED <<t10, servo1_ok, servo2_ok, disconnect_count, reconnects>>
  /\ UNCHANGED legsVars

\* Lines 107-108: time.sleep(0.05); t += 0.1 (t10 counts tenths).
HelloSleep ==
  /\ hpc = "sleep"
  /\ t10' = t10 + 1
  /\ hpc' = "move1"
  /\ UNCHANGED <<servo1, servo2, servo1_ok, servo2_ok, disconnect_count, reconnects, hout>>
  /\ UNCHANGED legsVars

\* Lines 110-121: KeyboardInterrupt anywhere in the loop; both servos are
\* sent to 120 degrees, and any failure of that is swallowed by the bare
\* except.
HelloInterrupt ==
  /\ hpc \in HelloLoopPcs
  /\ \E centered \in BOOLEAN :
       hout' = hout \cup {"Stopping", "StoppedSafely",
                          IF centered THEN "Centered" ELSE "CouldNotCenter"}
  /\ hpc' = "exit"
  /\ UNCHANGED <<t10, servo1, servo2, servo1_ok, servo2_ok, disconnect_count, reconnects>>
  /\ UNCHANGED legsVars

NextHello ==
  \/ HelloInitOk
  \/ HelloInitFails
  \/ HelloMove1
  \/ HelloMove2
  \/ HelloCheck
  \/ HelloReconnectOk
  \/ HelloReconnectFails
  \/ HelloSleep
  \/ HelloInterrupt

SpecHello == InitHello /\ [][NextHello]_vars


\* Lines 466-485: every exception that reaches __main__ is handled there and
\* no statement calls sys.exit, so the script falls off its end and the
\* interpreter exits with status 0; an exception left in flight would give 1.
ExitStatus == IF pc = "exit" /\ pending = "none" THEN 0 ELSE 1

\* ================================================================ claims
Failed == {sid \in ServoIds : cmd[sid] = "failed"}
Succeeded == {sid \in ServoIds : cmd[sid] = "ok"}

\* C1: when an interrupt is delivered while the gait runs, exactly one
\* set_pose(NEUTRAL, ...) call is issued between the interrupt and the end of
\* the script.
C1_ExactlyOneNeutral ==
  (pc = "exit" /\ intInGait) => neutralAfterInt = 1

\* C2: an interrupt that arrives while set_pose dispatches or settles a
\* keyframe does not cut it: all servos of the pose are commanded and the
\* settle wait completes before the neutral pose is applied.
C2_NoSplitPose ==
  intInGait => cut = "none"

\* C3: once the gait was invoked, the script ends only after main's finally
\* applied NEUTRAL with 800 ms and completed the 0.5 s pause.
C3_AlwaysNeutralSettled ==
  (pc = "exit" /\ gaitInvoked) => finalSettled

\* C4: a session whose connect fails is at its end, has called no move on any
\* servo, built no servo handle, and has printed the connection diagnostic.
C4_ConnectFailureNoMove ==
  connectFailed =>
    /\ pc = "exit"
    /\ ~moveCalled
    /\ SERVOS = {}
    /\ "FailedToConnect" \in out

C4_Witness ==
  connectFailed /\ pc = "exit" /\ ~gaitInvoked

\* C5: when the loop of set_pose is over, every servo of the pose whose move
\* did not fail was commanded, with the clamped angle of the pose, wherever
\* in the dispatch order the failing servos are.
C5_FaultIsolation ==
  (sp \in {"settle", "returned"} /\ SERVOS # {}) =>
    \A sid \in DOMAIN curPose :
      /\ cmd[sid] \in {"ok", "failed"}
      /\ cmd[sid] = "ok" => sent[sid] = Clamp(curPose[sid])

C5_Witness ==
  /\ sp = "settle"
  /\ cmd[LEFT_ANKLE] = "failed"
  /\ \A sid \in ServoIds \ {LEFT_ANKLE} : cmd[sid] = "ok"

\* C6 (as claimed): set_pose returns a PlayResult listing exactly the failed
\* servos as failed and the others as succeeded.
C6_ReturnsPlayResult ==
  sp = "returned" => ret = {[succeeded |-> Succeeded, failed |-> Failed]}

\* C6 (amended): set_pose returns None; the servos named in its printed
\* warnings are exactly those whose iteration raised.
C6_WarnsFailedReturnsNone ==
  sp = "returned" => (ret = {} /\ warned = Failed)

C6_Witness ==
  sp = "returned" /\ warned # {} /\ warned # ServoIds /\ Succeeded # {}

\* Entry j of the keyframes walk(n) plays: NEUTRAL, then 4 keyframes per
\* step, left leg on even steps, then NEUTRAL.
ExpectedWalkAt(j, n) ==
  IF j = 1 \/ j = 4 * n + 2
    THEN <<"NEUTRAL", 1>>
    ELSE LET s == (j - 2) \div 4
             k == ((j - 2) % 4) + 1
         IN  <<IF s % 2 = 0 THEN "Left" ELSE "Right", k>>

\* C7: when walk(n) has played its last pose, it played n*4 + 2 poses:
\* NEUTRAL, then for each step the 4 keyframes of the Left sequence (even
\* index) or the Right sequence (odd index), then NEUTRAL.
C7_WalkPlaysSteps ==
  (pc = "walk_neutral2" /\ sp = "returned") =>
    /\ Len(played) = 4 * steps + 2
    /\ \A j \in 1..Len(played) : played[j] = ExpectedWalkAt(j, steps)
    /\ Len(LEFT_LEG_STEP_SEQUENCE) = 4 /\ Len(RIGHT_LEG_STEP_SEQUENCE) = 4

C7_Witness ==
  pc = "walk_neutral2" /\ sp = "returned" /\ steps >= 2 /\ Len(played) >= 10

\* Position r of the 17-keyframe round Hip Sway (4), Hip Circle (5),
\* Hip Lift (4), Deep Hip (4).
ExpectedDanceAt(j) ==
  LET r == (j - 2) % 17 IN
  CASE r < 4 -> <<"HipSway", r + 1>>
    [] r >= 4 /\ r < 9 -> <<"HipCircle", r - 3>>
    [] r >= 9 /\ r < 13 -> <<"HipLift", r - 8>>
    [] OTHER -> <<"DeepHip", r - 12>>

PhrasesStarted ==
  Cardinality({j \in 1..Len(played) : played[j][1] # "NEUTRAL" /\ played[j][2] = 1})

\* C8: dance starts with one NEUTRAL application, then plays Hip Sway,
\* Hip Circle, Hip Lift, Deep Hip, Hip Sway, ... in that order whatever
\* duration_sec and t_ms are (the k-th phrase is fixed by k mod 4), and the
\* only other NEUTRAL application is the last pose it plays.
C8_DanceRoundRobin ==
  (gait = "dance" /\ played # <<>>) =>
    /\ played[1] = <<"NEUTRAL", 1>>
    /\ \A j \in 2..Len(played) :
         \/ played[j] = ExpectedDanceAt(j)
         \/ j = Len(played) /\ played[j] = <<"NEUTRAL", 1>>
    /\ pc \in {"dance_keyframe", "dance_check"} =>
         /\ sequence_count = PhrasesStarted
         /\ seqName = <<"DeepHip", "HipSway", "HipCircle", "HipLift">>[(PhrasesStarted % 4) + 1]

C8_Witness ==
  /\ pc = "dance_neutral2" /\ sp = "returned"
  /\ sequence_count >= 5
  /\ played[Len(played) - 1][1] = "HipSway"

\* C9: dance leaves its phrase loop only with elapsed >= duration_sec, every
\* phrase it started was played to its last keyframe, and for a positive
\* duration_sec at least one phrase was played.
C9_DanceStopsAtPhraseEnd ==
  /\ pc = "dance_neutral2" =>
       /\ (now - start_time) >= duration_sec * TicksPerSec
       /\ duration_sec > 0 => sequence_count >= 1
       /\ sequence_count >= 1 =>
            LET last == played[Len(played) - 1]
            IN  last[2] = Len(SequenceOf(last[1]))
  /\ pc = "dance_check" => keyframe_num = Len(SequenceOf(seqName))

C9_Witness ==
  /\ pc = "dance_neutral2" /\ sp = "dispatch" /\ idx = 1
  /\ duration_sec > 0
  /\ (now - start_time) > duration_sec * TicksPerSec

\* C10 (as claimed): the pose returned by pose_from_neutral(delta) holds
\* clamp(NEUTRAL[id] + delta[id], 0, 240) for the ids of delta and NEUTRAL[id]
\* for the others.
C10_ComposeReturnsClamped ==
  pc = "pose_call" =>
    \A sid \in ServoIds :
      curPose[sid] = IF sid \in DOMAIN delta THEN Clamp(NEUTRAL[sid] + delta[sid])
                                            ELSE NEUTRAL[sid]

\* C10 (amended): the pose returned by pose_from_neutral(delta) holds
\* NEUTRAL[id] + delta[id], not clamped, for the ids of delta that are keys
\* of NEUTRAL and NEUTRAL[id] for the other keys; set_pose passes
\* clamp(NEUTRAL[id] + delta[id], 0, 240) to move().
C10_ComposeAddsDispatchClamps ==
  pc = "pose_call" =>
    /\ DOMAIN curPose = DOMAIN NEUTRAL
    /\ \A sid \in ServoIds :
         /\ sid \in DOMAIN delta => curPose[sid] = NEUTRAL[sid] + delta[sid]
         /\ sid \notin DOMAIN delta => curPose[sid] = NEUTRAL[sid]
         /\ (cmd[sid] = "ok" /\ sid \in DOMAIN delta) =>
              sent[sid] = Max2(0, Min2(2400, NEUTRAL[sid] + delta[sid]))
         /\ (cmd[sid] = "ok" /\ sid \notin DOMAIN delta) => sent[sid] = NEUTRAL[sid]

C10_Witness ==
  /\ pc = "pose_call" /\ sp = "returned"
  /\ RIGHT_HIP \in DOMAIN delta
  /\ curPose[RIGHT_HIP] > AngleMax
  /\ sent[RIGHT_HIP] = AngleMax
  /\ LEFT_KNEE \notin DOMAIN delta /\ sent[LEFT_KNEE] = NEUTRAL[LEFT_KNEE]

\* -------------------------------------------------------------------- C11
StrayKeys == {sid \in DOMAIN delta : sid \notin DOMAIN NEUTRAL}

\* C11 as stated: whenever the delta names a servo id that is not a key of
\* the base pose, pose_from_neutral fails instead of returning a pose, so
\* no set_pose call is made with its result.
C11_StrayIdFails ==
  (pc # "compose" /\ StrayKeys # {}) => (pending = "exc" /\ sp = "none")

\* -------------------------------------------------------------------- C12
Attempted == {sid \in ServoIds : sent[sid] # -1}

\* C12: every angle passed to move() lies in [0, 240] degrees: an angle of
\* the pose above 240 is sent as 240, one below 0 as 0, and one inside the
\* range is sent as it is.
C12_SentWithinRange ==
  \A sid \in Attempted :
    /\ AngleMin <= sent[sid] /\ sent[sid] <= AngleMax
    /\ (curPose[sid] > AngleMax => sent[sid] = AngleMax)
    /\ (curPose[sid] < AngleMin => sent[sid] = AngleMin)
    /\ (AngleMin <= curPose[sid] /\ curPose[sid] <= AngleMax => sent[sid] = curPose[sid])

C12_Witness ==
  /\ sp = "returned"
  /\ \E a, b, c \in Attempted :
       /\ curPose[a] > AngleMax /\ sent[a] = AngleMax
       /\ curPose[b] < AngleMin /\ sent[b] = AngleMin
       /\ AngleMin < curPose[c] /\ curPose[c] < AngleMax /\ sent[c] = curPose[c]

\* -------------------------------------------------------------------- C13
\* C13: the angle set_pose computes before move() equals
\* min(240, max(0, a)) for every angle a of the pose, is computed for every
\* servo the loop reaches, and clamping it again leaves it as it is.
C13_ClampMinMaxIdempotent ==
  /\ \A sid \in Attempted :
       /\ sent[sid] = Min2(AngleMax, Max2(AngleMin, curPose[sid]))
       /\ Clamp(sent[sid]) = sent[sid]
  /\ (sp \in {"settle", "returned"} /\ SERVOS = ServoIds => Attempted = ServoIds)

C13_Witness ==
  /\ sp = "returned"
  /\ Attempted = ServoIds
  /\ \E a, b \in ServoIds : curPose[a] > AngleMax /\ curPose[b] < AngleMin

\* -------------------------------------------------------------------- C18
\* C18: a pose played twice in succession with the same duration is sent
\* the same way both times, servo by servo, and neither the pose nor
\* NEUTRAL is changed by playing it.
C18_ReplaySendsSame ==
  /\ (pc \in {"pose_call", "pose_replay"} => curPose = pose_from_neutral(delta))
  /\ (pc = "pose_replay" =>
        /\ curT = t_ms
        /\ \A sid \in Attempted : firstSent[sid] # -1 => sent[sid] = firstSent[sid]
        /\ (sp = "returned" => \A sid \in ServoIds : sent[sid] = firstSent[sid]))

C18_Witness ==
  /\ pc = "pose_replay" /\ sp = "returned"
  /\ Attempted = ServoIds
  /\ \E sid \in ServoIds : curPose[sid] > AngleMax /\ firstSent[sid] = AngleMax

\* -------------------------------------------------------------------- C14
\* C14: when servo commands of the finally clause's set_pose(NEUTRAL, 800)
\* fail, a warning is printed for each failing servo, set_pose is not
\* called again by the finally clause, and with no exception in flight the
\* script goes on to its normal end.
C14_FailedNeutralReported ==
  /\ [](pc = "finally_neutral" /\ sp \in {"settle", "returned"} => warned = Failed)
  /\ [][(pc = "finally_neutral" /\ sp = "returned" /\ Failed # {}) =>
          /\ pc' # "finally_neutral"
          /\ (pending = "none" /\ interrupts' = interrupts =>
                pc' = "exit" /\ pending' = "none")]_vars

C14_Witness ==
  /\ pc = "exit" /\ pending = "none"
  /\ interrupts = 0 /\ excs = 0
  /\ falseSuccess
  /\ Failed # {} /\ warned = Failed
  /\ neutralAfterInt = 0

\* -------------------------------------------------------------------- C15
\* C15: every run ends with a message that the robot returned to neutral,
\* printed after a neutral pose whose move commands all succeeded, or with
\* the warning that the return to neutral could not be made; never with a
\* success message printed after failed neutral commands, and never with
\* neither message.
C15_NeutralConfirmedOrWarned ==
  pc = "exit" =>
    /\ ~falseSuccess
    /\ \/ "ReturnedToNeutral" \in out
       \/ "ReturnedAfterError" \in out
       \/ "NeutralWarning" \in out

\* -------------------------------------------------------------------- C16
\* C16: the script exits with status 0 when the gait ran to completion, and
\* with a non-zero status, after a printed diagnostic, when connecting to
\* the bus or initializing the servos failed.
C16_ExitStatus ==
  pc = "exit" =>
    /\ ("GaitComplete" \in out => ExitStatus = 0)
    /\ (connectFailed => "FailedToConnect" \in out /\ ExitStatus # 0)
    /\ ("FailedToInit" \in out => ExitStatus # 0)

\* -------------------------------------------------------------------- C17
\* C17 as stated: walk and dance return a report with one entry per
\* keyframe played, in which a servo that failed on every keyframe is a
\* failure of every entry.
C17_ReturnsGaitReport ==
  report # <<>> =>
    \E r \in report[1] :
      /\ Len(r) >= 2
      /\ \A j \in 1..Len(r) : alwaysFailed \subseteq r[j]

\* C17 amended: walk and dance return None; what tells of a failing servo
\* is the warning set_pose prints for it in each keyframe where it failed,
\* so a servo failing on every keyframe is named in a warning of every
\* keyframe.
C17_ReturnsNoneWarnsEachKeyframe ==
  /\ (report # <<>> => report = <<{}>>)
  /\ alwaysWarned = alwaysFailed

C17_Witness ==
  /\ report = <<{}>>
  /\ alwaysFailed # {}
  /\ pc = "finally_neutral"

\* -------------------------------------------------------------------- C19
\* C19: in every set_pose call each item of the pose has had its move
\* attempted when the settle wait begins; the wait lasts t_ms plus at least
\* 50 ms whatever the outcome of the commands; and no other pose gets its
\* first command before the call in progress has ended its wait.
C19_SettleBeforeNextPose ==
  /\ [](sp \in {"settle", "returned"} => \A sid \in ServoIds : cmd[sid] # "pending")
  /\ [][(sp = "settle" /\ sp' = "returned") =>
          slept' * TickMs >= curT + SettleMarginMs]_vars
  /\ [][(sp \in {"dispatch", "settle"}) => ~(sp' = "dispatch" /\ pc' # pc)]_vars

\* -------------------------------------------------------------------- C20
\* C20: the keyframes of a sequence are handed to set_pose in list order:
\* keyframe k > 1 comes right after keyframe k - 1 of the same sequence,
\* keyframe k < last is followed by keyframe k + 1 when anything follows,
\* and the pose played is the keyframe at that index; failed servo commands
\* change none of this.
C20_KeyframesInListOrder ==
  /\ \A j \in 1..Len(played) :
       LET name == played[j][1]
           k == played[j][2]
       IN  /\ k \in 1..Len(SequenceOf(name))
           /\ (k > 1 => played[j - 1] = <<name, k - 1>>)
           /\ (k < Len(SequenceOf(name)) /\ j < Len(played) =>
                 played[j + 1] = <<name, k + 1>>)
  /\ (pc \in GaitPcs /\ sp \in {"dispatch", "settle", "returned"} =>
        /\ played # <<>> /\ played[Len(played)] = <<seqName, keyframe_num>>
        /\ curPose = SequenceOf(seqName)[keyframe_num])

C20_Witness ==
  /\ pc = "walk_keyframe" /\ keyframe_num = 2 /\ sp = "settle"
  /\ alwaysFailed # {}
  /\ Len(played) = 3

\* -------------------------------------------------------------------- C21
\* C21: whatever servo commands fail, up to all six on every command, no
\* exception leaves set_pose: while no interrupt and no other exception
\* occurs the gait is left only by its normal return, every pose played has
\* had all six moves attempted, and walk(n) has played n*4 + 2 poses when
\* its last one is done.
C21_PlaysThroughFailure ==
  /\ [][(pc \in GaitPcs /\ interrupts' = interrupts /\ excs' = excs) =>
          \/ pc' \in GaitPcs /\ pending' = "none"
          \/ /\ pc \in {"walk_neutral2", "dance_neutral2"} /\ sp = "returned"
             /\ pending' = "none" /\ report' = <<{}>>]_vars
  /\ [](pc \in GaitPcs /\ sp \in {"settle", "returned"} =>
          \A sid \in ServoIds : cmd[sid] \in {"ok", "failed"})
  /\ [](pc = "walk_neutral2" /\ sp \in {"settle", "returned"} =>
          Len(played) = 4 * steps + 2)

C21_Witness ==
  /\ pc = "finally_neutral" /\ pending = "none"
  /\ gait = "walk" /\ steps >= 2
  /\ report = <<{}>>
  /\ broken = ServoIds /\ alwaysFailed = ServoIds

\* -------------------------------------------------------------------- C22
WalkStarts == pc = "walk_neutral1" /\ pc' = "walk_loop"
WalkReturns == pc = "walk_neutral2" /\ pc' = "finally_neutral" /\ pending' = "none"

\* C22 as stated: the NEUTRAL pose of 800 ms is followed by the 0.5 s pause
\* both before walk's first step and after its last step, before walk
\* returns.
C22_PauseAtBothEnds ==
  /\ [][WalkStarts => curPose = NEUTRAL /\ curT = NeutralMs /\ slept' = PauseTicks]_vars
  /\ [][WalkReturns => curPose = NEUTRAL /\ curT = NeutralMs /\ slept = PauseTicks]_vars

\* C22 amended: the NEUTRAL pose of 800 ms is followed by the 0.5 s pause
\* before walk's first step only; after the last step walk returns as soon
\* as set_pose(NEUTRAL, 800) has ended its own settle wait of 850 ms.
C22_PauseBeforeFirstStepOnly ==
  /\ [][WalkStarts => curPose = NEUTRAL /\ curT = NeutralMs /\ slept' = PauseTicks]_vars
  /\ [][WalkReturns =>
          /\ curPose = NEUTRAL /\ curT = NeutralMs
          /\ slept = SettleTicks(NeutralMs) /\ slept' = slept]_vars

C22_Witness ==
  /\ gait = "walk" /\ steps >= 1 /\ report = <<{}>>
  /\ pc = "finally_neutral" /\ sp = "dispatch" /\ idx = 1
  /\ slept = SettleTicks(NeutralMs)
  /\ interrupts = 0 /\ excs = 0

\* -------------------------------------------------------------------- C23
\* C23: whatever calls came before and however they ended, a dance call
\* starts counting its phrases at 0 and plays Hip Sway as its first phrase,
\* and a walk call starts at step 0 and plays the Left-leg sequence as its
\* first step.
C23_CountersStartAtZero ==
  /\ [][pc = "dance_neutral1" /\ pc' = "dance_while" => sequence_count' = 0]_vars
  /\ [][pc = "walk_neutral1" /\ pc' = "walk_loop" => step_num' = 0]_vars
  /\ [](Len(played) >= 2 =>
          /\ played[1] = <<"NEUTRAL", 1>>
          /\ played[2] = IF gait = "walk"
                            THEN (IF steps = 0 THEN <<"NEUTRAL", 1>> ELSE <<"Left", 1>>)
                            ELSE (IF duration_sec = 0 THEN <<"NEUTRAL", 1>>
                                                      ELSE <<"HipSway", 1>>))

C23_Witness ==
  /\ calls >= 1 /\ interrupts >= 1
  /\ gait = "dance" /\ step_num >= 1
  /\ Len(played) >= 2 /\ played[2] = <<"HipSway", 1>>

\* -------------------------------------------------------------------- C24
SequenceNames == {"Left", "Right", "HipSway", "HipCircle", "HipLift", "DeepHip"}

\* C24: when the script starts, every angle of every keyframe of the two
\* step sequences and the four dance phrases is within [0, 240] degrees as
\* composed, and every
\* angle a gait passes to move() is the angle of its keyframe, unchanged by
\* the clamp.
C24_ChoreographyInRange ==
  /\ (pc = "connect" =>
        \A name \in SequenceNames : \A k \in 1..Len(SequenceOf(name)) :
          \A sid \in ServoIds :
            AngleMin <= SequenceOf(name)[k][sid] /\ SequenceOf(name)[k][sid] <= AngleMax)
  /\ (pc \in GaitPcs /\ sp # "none" =>
        \A sid \in ServoIds :
          /\ AngleMin <= curPose[sid] /\ curPose[sid] <= AngleMax
          /\ (sent[sid] # -1 => sent[sid] = curPose[sid]))

C24_Witness ==
  /\ pc = "dance_keyframe" /\ seqName = "HipSway" /\ keyframe_num = 3
  /\ sp = "returned"
  /\ sent[RIGHT_HIP] = NEUTRAL[RIGHT_HIP] + 50
  /\ sent[RIGHT_HIP] < AngleMax

\* -------------------------------------------------------------------- C25
\* C25: a gait that was called is left after finitely many steps: walk(n)
\* plays at most n*4 + 2 poses, every pose dance plays in its loop moves
\* the clock on by its settle wait at least, and no wait goes on for ever.
C25_GaitsTerminate ==
  /\ (pc \in GaitPcs /\ gaitInvoked) ~> (pc \notin GaitPcs)
  /\ [](gait = "walk" => Len(played) <= 4 * steps + 2)
  /\ [](pc = "dance_keyframe" /\ sp = "returned" =>
          now - start_time >= (Len(played) - 1) * SettleTicks(t_ms))

C25_Witness ==
  /\ pc = "finally_neutral" /\ report = <<{}>>
  /\ gait = "dance" /\ duration_sec = MaxDurationSec
  /\ interrupts = 0 /\ excs = 0

\* -------------------------------------------------------------------- C26
\* C26: the SERVOS registry is empty or holds all six ids, and it is empty
\* until initialize_servos has built all six handles; with an empty
\* registry no move() is ever called, and a set_pose that runs then prints
\* a warning for each servo and reaches its end without raising.
C26_RegistryAllOrNothing ==
  /\ SERVOS \in {{}, ServoIds}
  /\ (pc \in {"connect", "initialize_servos"} => SERVOS = {})
  /\ (SERVOS = {} => ~moveCalled /\ sent = NoSent)
  /\ (SERVOS = {} /\ sp \in {"settle", "returned"} =>
        warned = ServoIds /\ pending = "none")

C26_Witness ==
  /\ pc = "exit" /\ SERVOS = {}
  /\ sp = "returned" /\ warned = ServoIds
  /\ "Exiting" \in out
  /\ ~moveCalled

\* C27: in the hello-world movement loop disconnect_count is 0 at the start
\* of every iteration (until the check after the two moves) and never exceeds
\* max_disconnect_attempts; the loop goes on past the check only with fewer
\* than max_disconnect_attempts counted; a successful reconnect resets the
\* count to 0 and the loop continues; a failed reconnect leaves the loop at
\* once.
C27_DisconnectCountBounded ==
  /\ [](disconnect_count <= max_disconnect_attempts)
  /\ [](hpc \in {"move1", "move2", "check"} => disconnect_count = 0)
  /\ [][(hpc = "check" /\ hpc' \in {"reconnect", "sleep"})
          => disconnect_count' < max_disconnect_attempts]_vars
  /\ [][(hpc = "reconnect" /\ reconnects' = reconnects + 1)
          => (disconnect_count' = 0 /\ hpc' = "sleep")]_vars
  /\ [][(hpc = "reconnect" /\ ~(servo1' /\ servo2'))
          => (hpc' = "exit" /\ "FailedToReconnect" \in hout')]_vars
  /\ [][(hpc = "sleep" /\ hpc' # "exit") => hpc' = "move1"]_vars

\* A second iteration begins after a move failure and a successful reconnect.
C27_Witness ==
  /\ hpc = "move2"
  /\ t10 >= 1
  /\ reconnects >= 1
  /\ "Continuing" \in hout
  /\ disconnect_count = 0


====
